---- MODULE Spec2Model ----
(***************************************************************************)
(* Secure token lifecycle of natrayanp/svau: SecureJWTManager              *)
(* (backend/utils/auth/jwt_utils.py) over PostgreSQLStorage                *)
(* (backend/utils/auth/token_storage.py).                                  *)
(*                                                                         *)
(* The three tables are the state.  Every SQL statement the storage sends  *)
(* through db.execute_update / fetch_one / fetch_all is one atomic step    *)
(* that either takes effect or raises; a storage method is the sequence of *)
(* its statements inside its try/except.  Time is a logical clock `now`    *)
(* read by NOW() in the database and by utcnow() in the manager.           *)
(*                                                                         *)
(* Also modelled: the routes login / refresh / logout                      *)
(* (backend/routes/auth/auth_routes.py), the retry loop of                 *)
(* AsyncDatabaseManager._execute                                           *)
(* (backend/utils/database/database_async_core.py) and the cleanup job of  *)
(* initialize_app (backend/utils/auth/auth_startup.py).                    *)
(***************************************************************************)
EXTENDS Integers, Sequences, FiniteSets, TLC

\* ------------------------------------------------------------------ bounds
MaxTime == 2            \* the clock runs over the seconds 0..MaxTime
TicksPerSecond == 2     \* resolution of the clock: `now` counts ticks
MaxTokens == 2          \* jtis generated under Spec
ClockMaxTime == 3       \* the clock of SpecClock runs over the ticks 0..ClockMaxTime
ClockMaxTokens == 1     \* jtis generated under SpecClock
RouteMaxTokens == 4     \* jtis generated under SpecRoutes
StoreMaxTokens == 4     \* jtis generated under SpecStore
TablesMaxTokens == 3    \* jtis stored under SpecTables
RevokeMaxTokens == 3    \* jtis generated under SpecRevoke
MaxRetries == 3         \* `retries` of the database manager ranges over 0..MaxRetries

\* ------------------------------------------------------- program constants
\* (all three are read from the environment; the model runs a small setting)
access_token_ttl == 1   \* JWT_ACCESS_TTL, seconds
refresh_token_ttl == 2  \* JWT_REFRESH_TTL, seconds
MAX_REFRESH_TOKENS == 2 \* max_tokens of store_refresh_token

Horizon == MaxTime * TicksPerSecond
\* timedelta(seconds=n) and n * INTERVAL '1 second', in ticks
seconds(n) == n * TicksPerSecond

\* ------------------------------------------------------------------ inputs
Users == {1, 2}                         \* user_data["id"]
LifecycleUsers == {1}                   \* the user whose token lifecycle Spec follows
UserAgents == {"ua"}
ClientIps == {"ip1", "ip2"}
Requests == [user_agent : UserAgents, client_ip : ClientIps]
StoreRequests == {r \in Requests : r.client_ip = "ip1"}   \* the requests of SpecStore
TokenTypes == {"access", "refresh"}
NoJti == 0                              \* refresh_jti = None
Jtis == 1..(MaxTokens + ClockMaxTokens + RouteMaxTokens + StoreMaxTokens)
Procs == {"p1", "p2"}                   \* processes sharing the storage

\* ------------------------------------------------------------ error kinds
OK == "OK"
ExpiredToken == "Token has expired"
InvalidToken == "Invalid token"
TypeMismatch == "Invalid token type"
Revoked == "Token has been revoked"
RefreshNoLongerValid == "Refresh token no longer valid"
DeviceAuthorizationChanged == "Device authorization changed"
VerificationFailed == "Token verification failed"
AuthenticationFailed == "Authentication failed"

VARIABLES
    now,               \* NOW() / utcnow()
    token_blacklist,   \* rows [jti, user_id, expires_at], jti unique
    refresh_tokens,    \* rows [jti, user_id, device_fp, expires_at], in created_at order
    user_devices,      \* rows [user_id, device_fp, expires_at, last_seen]
    issued,            \* every token handed back: [token, user_data, request, at]
    revoked,           \* history: [jti, by], the tokens issued before a revocation
                       \* call that returned True and named by it
    inflight,          \* create_refresh_token calls between two statements:
                       \* [proc, pc, jti, user_data, request]
    execution,         \* the _execute call of the database manager: [pc, retries,
                       \* query, params, attempts, result]
    scheduler          \* the BackgroundScheduler's job: "waiting" for its interval,
                       \* or "called"

vars == <<now, token_blacklist, refresh_tokens, user_devices, issued, revoked, inflight,
          execution, scheduler>>

\* --------------------------------------------------------------- helpers
Range(s) == {s[i] : i \in 1..Len(s)}

\* _create_device_fingerprint: sha256 over "user_agent|ip"
create_device_fingerprint(request) == <<request.user_agent, request.client_ip>>

Fingerprints == {create_device_fingerprint(r) : r \in Requests}

\* The storage a method works on.
Store(bl, rt, dev) == [token_blacklist |-> bl, refresh_tokens |-> rt, user_devices |-> dev]
CurrentStore == Store(token_blacklist, refresh_tokens, user_devices)

\* ----------------------------------------------------------------------
\* PostgreSQLStorage.  `t` is NOW(); `fail` is the number of the statement
\* of the method that raises (0: none), `raises` the same for a single read.
\* ----------------------------------------------------------------------

\* INSERT INTO token_blacklist ... ON CONFLICT (jti) DO NOTHING
blacklist_query(bl, rows) ==
    bl \cup {r \in rows : \A b \in bl : b.jti # r.jti}

blacklist_token(st, jti, user_id, expires_in, t, fail) ==
    IF fail = 1 THEN [st |-> st, res |-> FALSE]
    ELSE [st |-> [st EXCEPT !.token_blacklist = blacklist_query(@,
                     {[jti |-> jti, user_id |-> user_id, expires_at |-> t + seconds(expires_in)]})],
          res |-> TRUE]

\* the lookup with `return False` in its except clause
is_token_blacklisted_fail_open(st, jti, t, raises) ==
    IF raises THEN FALSE
    ELSE \E b \in st.token_blacklist : b.jti = jti /\ b.expires_at > t

is_token_blacklisted(st, jti, t, raises) ==
    IF raises THEN TRUE
    ELSE \E b \in st.token_blacklist : b.jti = jti /\ b.expires_at > t

\* created_at of a new refresh_tokens row: the rows are kept in created_at order
created_at_default(rt, row) == Append(rt, row)

\* INSERT INTO refresh_tokens ... ON CONFLICT (jti) DO UPDATE SET expires_at, metadata
token_query(rt, jti, user_id, device_fp, expires_at) ==
    IF \E i \in 1..Len(rt) : rt[i].jti = jti
    THEN [i \in 1..Len(rt) |->
             IF rt[i].jti = jti THEN [rt[i] EXCEPT !.expires_at = expires_at] ELSE rt[i]]
    ELSE created_at_default(rt, [jti |-> jti, user_id |-> user_id,
                                 device_fp |-> device_fp, expires_at |-> expires_at])

\* the prune with LIMIT max_tokens + 1
user_tokens_query_one_more(rt, user_id, max_tokens) ==
    LET current_tokens ==
            {rt[i].jti : i \in {k \in 1..Len(rt) :
                /\ rt[k].user_id = user_id
                /\ Cardinality({m \in (k+1)..Len(rt) : rt[m].user_id = user_id})
                       < max_tokens + 1}}
    IN SelectSeq(rt, LAMBDA r : ~(r.user_id = user_id /\ r.jti \notin current_tokens))

\* the prune with ORDER BY created_at ASC: it keeps the oldest max_tokens rows
user_tokens_query_oldest(rt, user_id, max_tokens) ==
    LET current_tokens ==
            {rt[i].jti : i \in {k \in 1..Len(rt) :
                /\ rt[k].user_id = user_id
                /\ Cardinality({m \in 1..(k-1) : rt[m].user_id = user_id}) < max_tokens}}
    IN SelectSeq(rt, LAMBDA r : ~(r.user_id = user_id /\ r.jti \notin current_tokens))

\* WITH current_tokens AS (... ORDER BY created_at DESC LIMIT max_tokens)
\* DELETE FROM refresh_tokens WHERE user_id = %s AND jti NOT IN current_tokens
user_tokens_query(rt, user_id, max_tokens) ==
    LET current_tokens ==
            {rt[i].jti : i \in {k \in 1..Len(rt) :
                /\ rt[k].user_id = user_id
                /\ Cardinality({m \in (k+1)..Len(rt) : rt[m].user_id = user_id}) < max_tokens}}
    IN SelectSeq(rt, LAMBDA r : ~(r.user_id = user_id /\ r.jti \notin current_tokens))

store_refresh_token(st, jti, user_id, device_fp, expires_in, t, fail) ==
    LET s1 == [st EXCEPT !.refresh_tokens =
                   token_query(@, jti, user_id, device_fp, t + seconds(expires_in))]
        s2 == [s1 EXCEPT !.refresh_tokens =
                   user_tokens_query(@, user_id, MAX_REFRESH_TOKENS)]
    IN CASE fail = 1 -> [st |-> st, res |-> FALSE]
         [] fail = 2 -> [st |-> s1, res |-> FALSE]
         [] OTHER    -> [st |-> s2, res |-> TRUE]

\* the rows found (no row, or a raise: None)
get_refresh_token(st, jti, t, raises) ==
    IF raises THEN {}
    ELSE {r \in Range(st.refresh_tokens) : r.jti = jti /\ r.expires_at > t}

\* the method without its DELETE FROM refresh_tokens
revoke_user_tokens_keeps_tokens(st, user_id, t, fail) ==
    LET s1 == [st EXCEPT !.token_blacklist = blacklist_query(@,
                   {[jti |-> r.jti, user_id |-> r.user_id, expires_at |-> r.expires_at] :
                        r \in {x \in Range(st.refresh_tokens) :
                                   x.user_id = user_id /\ x.expires_at > t}})]
        s3 == [s1 EXCEPT !.user_devices = {d \in @ : d.user_id # user_id}]
    IN CASE fail = 1 -> [st |-> st, res |-> FALSE]
         [] fail = 2 -> [st |-> s1, res |-> FALSE]
         [] fail = 3 -> [st |-> s1, res |-> FALSE]
         [] OTHER    -> [st |-> s3, res |-> TRUE]

revoke_user_tokens(st, user_id, t, fail) ==
    LET s1 == [st EXCEPT !.token_blacklist = blacklist_query(@,
                   {[jti |-> r.jti, user_id |-> r.user_id, expires_at |-> r.expires_at] :
                        r \in {x \in Range(st.refresh_tokens) :
                                   x.user_id = user_id /\ x.expires_at > t}})]
        s2 == [s1 EXCEPT !.refresh_tokens = SelectSeq(@, LAMBDA r : r.user_id # user_id)]
        s3 == [s2 EXCEPT !.user_devices = {d \in @ : d.user_id # user_id}]
    IN CASE fail = 1 -> [st |-> st, res |-> FALSE]
         [] fail = 2 -> [st |-> s1, res |-> FALSE]
         [] fail = 3 -> [st |-> s2, res |-> FALSE]
         [] OTHER    -> [st |-> s3, res |-> TRUE]

\* the method with WHERE user_id = %s only
revoke_device_every_device(st, user_id, device_fp, fail) ==
    LET s1 == [st EXCEPT !.token_blacklist = blacklist_query(@,
                   {[jti |-> r.jti, user_id |-> r.user_id, expires_at |-> r.expires_at] :
                        r \in {x \in Range(st.refresh_tokens) : x.user_id = user_id}})]
        s2 == [s1 EXCEPT !.refresh_tokens = SelectSeq(@, LAMBDA r : r.user_id # user_id)]
        s3 == [s2 EXCEPT !.user_devices = {d \in @ : d.user_id # user_id}]
    IN CASE fail = 1 -> [st |-> st, res |-> FALSE]
         [] fail = 2 -> [st |-> s1, res |-> FALSE]
         [] fail = 3 -> [st |-> s2, res |-> FALSE]
         [] OTHER    -> [st |-> s3, res |-> TRUE]

revoke_device(st, user_id, device_fp, fail) ==
    LET s1 == [st EXCEPT !.token_blacklist = blacklist_query(@,
                   {[jti |-> r.jti, user_id |-> r.user_id, expires_at |-> r.expires_at] :
                        r \in {x \in Range(st.refresh_tokens) :
                                   x.user_id = user_id /\ x.device_fp = device_fp}})]
        s2 == [s1 EXCEPT !.refresh_tokens =
                   SelectSeq(@, LAMBDA r : ~(r.user_id = user_id /\ r.device_fp = device_fp))]
        s3 == [s2 EXCEPT !.user_devices =
                   {d \in @ : ~(d.user_id = user_id /\ d.device_fp = device_fp)}]
    IN CASE fail = 1 -> [st |-> st, res |-> FALSE]
         [] fail = 2 -> [st |-> s1, res |-> FALSE]
         [] fail = 3 -> [st |-> s2, res |-> FALSE]
         [] OTHER    -> [st |-> s3, res |-> TRUE]

\* the rows found (a raise: [])
get_user_devices(st, user_id, t, raises) ==
    IF raises THEN {}
    ELSE {d \in st.user_devices : d.user_id = user_id /\ d.expires_at > t}

\* INSERT INTO user_devices ... ON CONFLICT (user_id, device_fp) DO UPDATE
track_device(st, user_id, device_fp, expires_in, t, fail) ==
    IF fail = 1 THEN [st |-> st, res |-> FALSE]
    ELSE [st |-> [st EXCEPT !.user_devices =
                     {d \in @ : ~(d.user_id = user_id /\ d.device_fp = device_fp)}
                     \cup {[user_id |-> user_id, device_fp |-> device_fp,
                            expires_at |-> t + seconds(expires_in), last_seen |-> t]}],
          res |-> TRUE]

\* the cleanup with DELETE ... WHERE expires_at <= NOW() + 1 second
cleanup_expired_early(st, t, fail) ==
    LET s1 == [st EXCEPT !.token_blacklist = {b \in @ : ~(b.expires_at <= t + seconds(1))}]
        s2 == [s1 EXCEPT !.refresh_tokens =
                   SelectSeq(@, LAMBDA r : ~(r.expires_at <= t + seconds(1)))]
        s3 == [s2 EXCEPT !.user_devices = {d \in @ : ~(d.expires_at <= t + seconds(1))}]
    IN CASE fail = 1 -> [st |-> st, res |-> FALSE]
         [] fail = 2 -> [st |-> s1, res |-> FALSE]
         [] fail = 3 -> [st |-> s2, res |-> FALSE]
         [] OTHER    -> [st |-> s3, res |-> TRUE]

cleanup_expired(st, t, fail) ==
    LET s1 == [st EXCEPT !.token_blacklist = {b \in @ : ~(b.expires_at <= t)}]
        s2 == [s1 EXCEPT !.refresh_tokens = SelectSeq(@, LAMBDA r : ~(r.expires_at <= t))]
        s3 == [s2 EXCEPT !.user_devices = {d \in @ : ~(d.expires_at <= t)}]
    IN CASE fail = 1 -> [st |-> st, res |-> FALSE]
         [] fail = 2 -> [st |-> s1, res |-> FALSE]
         [] fail = 3 -> [st |-> s2, res |-> FALSE]
         [] OTHER    -> [st |-> s3, res |-> TRUE]

\* ----------------------------------------------------------------------
\* RedisStorage: the blacklist is the set of keys blacklist:<jti> present
\* ----------------------------------------------------------------------
redis_is_token_blacklisted(keys, jti, raises) ==
    IF raises THEN TRUE ELSE Cardinality({k \in keys : k = jti}) > 0

\* ----------------------------------------------------------------------
\* AsyncDatabaseManager._execute (backend/utils/database/database_async_core.py)
\* A query is a sequence of tokens: text, or a placeholder %(name)s.
\* ----------------------------------------------------------------------
text(t) == [kind |-> "text", text |-> t]
placeholder(name) == [kind |-> "%", text |-> name]
positional(idx) == [kind |-> "$", text |-> <<"1", "2">>[idx]]

Queries ==
    {<<text("SELECT 1")>>,
     <<text("DELETE WHERE user_id ="), placeholder("user_id")>>,
     <<text("SELECT WHERE jti ="), placeholder("jti"), text("OR user_id ="), placeholder("user_id"),
       text("OR jti ="), placeholder("jti")>>}

ParamNames == {"jti", "user_id"}
ParamValues == {"v"}

\* the dicts of parameters: a function from some of the names to values
Params == UNION {[S -> ParamValues] : S \in SUBSET ParamNames}

RECURSIVE first_appearance(_, _)
\* the placeholder names of a query in the order of their first appearance
first_appearance(query, seen) ==
    IF query = <<>> THEN seen
    ELSE first_appearance(Tail(query),
             IF Head(query).kind = "%" /\ Head(query).text \notin Range(seen)
             THEN Append(seen, Head(query).text) ELSE seen)

\* %(name)s -> $1, $2, ...; KeyError when a name has no parameter
_convert_params(query, params) ==
    LET seen == first_appearance(query, <<>>)
        index(name) == CHOOSE i \in 1..Len(seen) : seen[i] = name
    IN IF DOMAIN params = {} THEN [raises |-> FALSE, query |-> query, params |-> <<>>]
       ELSE IF \E i \in 1..Len(seen) : seen[i] \notin DOMAIN params
       THEN [raises |-> TRUE, query |-> query, params |-> <<>>]
       ELSE [raises |-> FALSE,
             query |-> [i \in 1..Len(query) |->
                          IF query[i].kind = "%" THEN positional(index(query[i].text))
                          ELSE query[i]],
             params |-> [i \in 1..Len(seen) |-> params[seen[i]]]]

\* RW1: the write pool for writes and when no read pool is configured
_get_pool(write, read_pool) == IF write \/ ~read_pool THEN "write_pool" ELSE "read_pool"

\* what one attempt of a statement yields: an exception, or the rows fetched
Outcomes == {"error", "no row", "rows"}
Fetches == {"one", "all", "exec"}

\* the loop raising after the first failed attempt
raise_on_first_failure(attempt, retries) == attempt >= 1

\* `if attempt == self.retries: raise AsyncDatabaseError`
last_attempt(attempt, retries) == attempt = retries

\* no call yet
NoExecution ==
    [pc |-> "idle", retries |-> 0, fetch |-> "exec", pool |-> "write_pool",
     query |-> <<>>, params |-> <<>>, attempts |-> <<>>,
     result |-> [fetch |-> "exec", rows |-> "None"]]

\* _execute up to its loop: the pool, the conversion, range(1, retries + 1)
Execute(query, params, fetch, write, read_pool, retries) ==
    /\ execution.pc # "loop"
    /\ LET converted == _convert_params(query, params)
       IN execution' =
              [pc |-> IF converted.raises THEN "KeyError"
                      ELSE IF retries >= 1 THEN "loop" ELSE "returned",
               retries |-> retries, fetch |-> fetch,
               pool |-> _get_pool(write, read_pool),
               query |-> converted.query, params |-> converted.params,
               attempts |-> <<>>,
               result |-> [fetch |-> fetch, rows |-> "None"]]
    /\ UNCHANGED <<now, token_blacklist, refresh_tokens, user_devices, issued, revoked,
                   inflight, scheduler>>

\* one pass of the loop: prepare and fetch on a connection of the pool
Attempt(outcome) ==
    /\ execution.pc = "loop"
    /\ LET attempt == Len(execution.attempts) + 1
           ok == outcome # "error"
           result == [fetch |-> execution.fetch, rows |-> outcome]
       IN execution' =
              [execution EXCEPT
                  !.attempts = Append(@, [query |-> execution.query,
                                          params |-> execution.params,
                                          pool |-> execution.pool,
                                          ok |-> ok, result |-> result]),
                  !.pc = IF ok THEN "returned"
                         ELSE IF last_attempt(attempt, execution.retries) THEN "raised"
                         ELSE "loop",
                  !.result = IF ok THEN result ELSE @]
    /\ UNCHANGED <<now, token_blacklist, refresh_tokens, user_devices, issued, revoked,
                   inflight, scheduler>>

\* Every call of _execute and every pass of its loop
Executions ==
    \/ \E query \in Queries, params \in Params, fetch \in Fetches :
          \E write \in BOOLEAN, read_pool \in BOOLEAN, retries \in 0..MaxRetries :
              Execute(query, params, fetch, write, read_pool, retries)
    \/ \E outcome \in Outcomes : Attempt(outcome)

\* ----------------------------------------------------------------------
\* SecureJWTManager
\* ----------------------------------------------------------------------

\* the uuid4 of _generate_jti: a jti no token and no row carries yet
UsedJtis ==
    {e.token.jti : e \in issued} \cup {r.jti : r \in Range(refresh_tokens)}
    \cup {b.jti : b \in token_blacklist} \cup ({c.jti : c \in inflight} \ {NoJti})

generate_jti(used) ==
    CHOOSE j \in Jtis \ used : \A k \in Jtis \ used : j <= k

\* jwt.encode turns a datetime into whole seconds: timegm(utctimetuple())
timegm(t) == TicksPerSecond * (t \div TicksPerSecond)

\* the claims with the user_id taken from a field the user data does not have
access_claims_no_user(user_data, request, refresh_jti, jti, t) ==
    [jti |-> jti, type |-> "access", user_id |-> 0,
     exp |-> timegm(t + seconds(access_token_ttl)),
     device_fp |-> create_device_fingerprint(request),
     client_ip |-> request.client_ip, refresh_jti |-> refresh_jti]

\* claims of create_access_token, as jwt.encode signs them
access_claims(user_data, request, refresh_jti, jti, t) ==
    [jti |-> jti, type |-> "access", user_id |-> user_data,
     exp |-> timegm(t + seconds(access_token_ttl)),
     device_fp |-> create_device_fingerprint(request),
     client_ip |-> request.client_ip, refresh_jti |-> refresh_jti]

\* claims of create_refresh_token
refresh_claims(user_data, request, jti, t) ==
    [jti |-> jti, type |-> "refresh", user_id |-> user_data,
     exp |-> timegm(t + seconds(refresh_token_ttl)),
     device_fp |-> create_device_fingerprint(request),
     client_ip |-> request.client_ip, refresh_jti |-> NoJti]

\* the method without `if not device_tracked: raise`
create_access_token_unchecked(st, user_data, request, refresh_jti, jti, t, fail) ==
    [st |-> track_device(st, user_data, create_device_fingerprint(request),
                         refresh_token_ttl, t, fail).st,
     res |-> <<access_claims(user_data, request, refresh_jti, jti, t)>>]

\* res: the token handed back, or <<>> when HTTPException(500) is raised
create_access_token(st, user_data, request, refresh_jti, jti, t, fail) ==
    LET device_tracked == track_device(st, user_data, create_device_fingerprint(request),
                                       refresh_token_ttl, t, fail)
    IN IF ~device_tracked.res
       THEN [st |-> device_tracked.st, res |-> <<>>]
       ELSE [st |-> device_tracked.st,
             res |-> <<access_claims(user_data, request, refresh_jti, jti, t)>>]

create_refresh_token(st, user_data, request, jti, t, fail) ==
    LET stored == store_refresh_token(st, jti, user_data,
                                      create_device_fingerprint(request),
                                      refresh_token_ttl, t, fail)
    IN IF ~stored.res
       THEN [st |-> stored.st, res |-> <<>>]
       ELSE [st |-> stored.st, res |-> <<refresh_claims(user_data, request, jti, t)>>]

\* jwt.decode that lets a token pass in the second it expires (exp < now)
decode_one_second_late(token, t) == IF token.exp < t THEN ExpiredToken ELSE OK

\* jwt.decode of a token this manager signed: only exp can fail (exp <= now)
decode(token, t) == IF token.exp <= t THEN ExpiredToken ELSE OK

Reads == {"is_token_blacklisted", "get_refresh_token", "get_user_devices"}

\* verify_token with the blacklist check moved before the type check
verify_token_blacklist_first(st, token, request, token_type, t, raising) ==
    LET current_device_fp == create_device_fingerprint(request)
        token_device_fp == token.device_fp
        devices == get_user_devices(st, token.user_id, t, "get_user_devices" \in raising)
        device_fps == {d.device_fp : d \in devices}
    IN CASE decode(token, t) # OK -> decode(token, t)
         [] is_token_blacklisted(st, token.jti, t, "is_token_blacklisted" \in raising)
                -> Revoked
         [] token.type # token_type -> TypeMismatch
         [] /\ token_type = "access"
            /\ token.refresh_jti # NoJti
            /\ get_refresh_token(st, token.refresh_jti, t,
                                 "get_refresh_token" \in raising) = {}
                -> RefreshNoLongerValid
         [] /\ token_device_fp # current_device_fp
            /\ token_device_fp \notin device_fps
                -> DeviceAuthorizationChanged
         [] OTHER -> OK

\* verify_token: the detail of the HTTPException raised, or OK (the payload is returned)
verify_token(st, token, request, token_type, t, raising) ==
    LET current_device_fp == create_device_fingerprint(request)
        token_device_fp == token.device_fp
        devices == get_user_devices(st, token.user_id, t, "get_user_devices" \in raising)
        device_fps == {d.device_fp : d \in devices}
    IN CASE decode(token, t) # OK -> decode(token, t)
         [] token.type # token_type -> TypeMismatch
         [] is_token_blacklisted(st, token.jti, t, "is_token_blacklisted" \in raising)
                -> Revoked
         [] /\ token_type = "access"
            /\ token.refresh_jti # NoJti
            /\ get_refresh_token(st, token.refresh_jti, t,
                                 "get_refresh_token" \in raising) = {}
                -> RefreshNoLongerValid
         [] /\ token_device_fp # current_device_fp
            /\ token_device_fp \notin device_fps
                -> DeviceAuthorizationChanged
         [] OTHER -> OK

\* verify_token registering the device of the request when it tolerates a
\* fingerprint mismatch
verify_token_tracks_device(st, token, request, token_type, t, raising) ==
    IF /\ verify_token(st, token, request, token_type, t, raising) = OK
       /\ token.device_fp # create_device_fingerprint(request)
    THEN <<"is_token_blacklisted", "get_user_devices", "track_device">>
    ELSE <<>>

\* the storage methods verify_token awaits, in the order it awaits them
verify_token_reads(st, token, request, token_type, t, raising) ==
    LET blacklisted == is_token_blacklisted(st, token.jti, t,
                                            "is_token_blacklisted" \in raising)
        linked == token_type = "access" /\ token.refresh_jti # NoJti
        refresh_data == get_refresh_token(st, token.refresh_jti, t,
                                          "get_refresh_token" \in raising)
    IN IF decode(token, t) # OK \/ token.type # token_type THEN <<>>
       ELSE <<"is_token_blacklisted">>
            \o (IF blacklisted THEN <<>>
                ELSE (IF linked THEN <<"get_refresh_token">> ELSE <<>>)
                     \o (IF linked /\ refresh_data = {} THEN <<>>
                         ELSE IF token.device_fp # create_device_fingerprint(request)
                              THEN <<"get_user_devices">> ELSE <<>>))

\* the tables after a storage method awaited by verify_token: the three
\* lookups are SELECTs
await_storage(st, method, token, request, t) ==
    IF method \in Reads THEN st
    ELSE track_device(st, token.user_id, create_device_fingerprint(request),
                      refresh_token_ttl, t, 0).st

RECURSIVE await_all(_, _, _, _, _)
await_all(st, methods, token, request, t) ==
    IF methods = <<>> THEN st
    ELSE await_all(await_storage(st, Head(methods), token, request, t), Tail(methods),
                   token, request, t)

\* the tables after verify_token
verify_token_effect(st, token, request, token_type, t, raising) ==
    await_all(st, verify_token_reads(st, token, request, token_type, t, raising),
              token, request, t)

\* what a presented token can be: as signed, with a signature that does not
\* verify, or without one of the claims jwt.decode is told to require
Defects == {"none", "signature", "missing_claim"}

\* the exception jwt.decode raises for a defective token
decode_exception(defect) ==
    IF defect = "signature" THEN "InvalidSignatureError" ELSE "MissingRequiredClaimError"

\* the except clauses of verify_token: InvalidSignatureError and
\* MissingRequiredClaimError are both jwt.InvalidTokenError
error_kind(exception) ==
    CASE exception = "ExpiredSignatureError" -> ExpiredToken
      [] exception \in {"InvalidSignatureError", "MissingRequiredClaimError"} -> InvalidToken
      [] OTHER -> VerificationFailed

\* verify_token of a presented token
verify_presented(st, token, defect, request, token_type, t, raising) ==
    IF defect = "none" THEN verify_token(st, token, request, token_type, t, raising)
    ELSE error_kind(decode_exception(defect))

\* ----------------------------------------------------------------------
\* The state machine: one action per call of the manager
\* ----------------------------------------------------------------------
Init ==
    /\ now = 0
    /\ token_blacklist = {}
    /\ refresh_tokens = <<>>
    /\ user_devices = {}
    /\ issued = {}
    /\ revoked = {}
    /\ inflight = {}
    /\ execution = NoExecution
    /\ scheduler = "waiting"

Commit(st) ==
    /\ token_blacklist' = st.token_blacklist
    /\ refresh_tokens' = st.refresh_tokens
    /\ user_devices' = st.user_devices

\* the caller receives the tokens of `res`
HandBack(res, user_data, request) ==
    issued' = issued \cup {[token |-> res[i], user_data |-> user_data,
                            request |-> request, at |-> now] : i \in 1..Len(res)}

JtisIssuedTo(user_data, type) ==
    {e.token.jti : e \in {x \in issued : x.token.type = type /\ x.user_data = user_data}}

\* a revocation call that returned True names the tokens `named` issued so far
Revoke(res, named, by) ==
    revoked' = IF res THEN revoked \cup {[jti |-> e.token.jti, by |-> by] : e \in named}
               ELSE revoked

\* the clock advances by `step` ticks
Tick(step, horizon) ==
    /\ now + step <= horizon
    /\ now' = now + step
    /\ UNCHANGED <<token_blacklist, refresh_tokens, user_devices, issued, revoked, inflight, execution, scheduler>>

CreateAccessToken(user_data, request, refresh_jti, fail, budget) ==
    /\ Cardinality(UsedJtis) < budget
    /\ LET r == create_access_token(CurrentStore, user_data, request, refresh_jti,
                                    generate_jti(UsedJtis), now, fail)
       IN /\ Commit(r.st)
          /\ HandBack(r.res, user_data, request)
    /\ UNCHANGED <<now, revoked, inflight, execution, scheduler>>

CreateRefreshToken(user_data, request, fail, budget) ==
    /\ Cardinality(UsedJtis) < budget
    /\ LET r == create_refresh_token(CurrentStore, user_data, request,
                                     generate_jti(UsedJtis), now, fail)
       IN /\ Commit(r.st)
          /\ HandBack(r.res, user_data, request)
    /\ UNCHANGED <<now, revoked, inflight, execution, scheduler>>

\* verify_token: its outcome, and the tables after the storage methods it awaits
VerifyToken(token, request, token_type, raising) ==
    /\ verify_token(CurrentStore, token, request, token_type, now, raising) \in
           {OK, ExpiredToken, TypeMismatch, Revoked, RefreshNoLongerValid,
            DeviceAuthorizationChanged}
    /\ Commit(verify_token_effect(CurrentStore, token, request, token_type, now, raising))
    /\ UNCHANGED <<now, issued, revoked, inflight, execution, scheduler>>

\* verify_token of a token that is not as signed: jwt.decode raises
VerifyDefective(token, defect, request, token_type) ==
    /\ verify_presented(CurrentStore, token, defect, request, token_type, now, {})
           \in {InvalidToken}
    /\ UNCHANGED vars

BlacklistToken(jti, user_id, expiry_seconds, fail) ==
    /\ LET r == blacklist_token(CurrentStore, jti, user_id, expiry_seconds, now, fail)
       IN /\ Commit(r.st)
          /\ Revoke(r.res, {e \in issued : e.token.jti = jti}, "blacklist_token")
    /\ UNCHANGED <<now, issued, inflight, execution, scheduler>>

RevokeUserTokens(user_id, fail) ==
    /\ LET r == revoke_user_tokens(CurrentStore, user_id, now, fail)
       IN /\ Commit(r.st)
          /\ Revoke(r.res, {e \in issued : e.user_data = user_id}, "revoke_user_tokens")
    /\ UNCHANGED <<now, issued, inflight, execution, scheduler>>

RevokeDevice(user_id, device_fp, fail) ==
    /\ LET r == revoke_device(CurrentStore, user_id, device_fp, fail)
       IN /\ Commit(r.st)
          /\ Revoke(r.res, {e \in issued : /\ e.user_data = user_id
                                           /\ e.token.device_fp = device_fp},
                    "revoke_device")
    /\ UNCHANGED <<now, issued, inflight, execution, scheduler>>

CleanupExpired(fail) ==
    /\ LET r == cleanup_expired(CurrentStore, now, fail)
       IN /\ Commit(r.st)
    /\ UNCHANGED <<now, issued, revoked, inflight, execution, scheduler>>

\* cleanup_expired_tokens is an async def: calling it makes a coroutine object,
\* and only awaiting that object runs storage.cleanup_expired
cleanup_expired_tokens(st, t, fail, awaited) ==
    IF awaited THEN cleanup_expired(st, t, fail) ELSE [st |-> st, res |-> FALSE]

\* the interval job of initialize_app fires in the scheduler's thread pool:
\* lambda: get_jwt_manager().cleanup_expired_tokens(), which nothing awaits
CleanupJob ==
    /\ scheduler = "waiting"
    /\ scheduler' = "called"
    /\ Commit(cleanup_expired_tokens(CurrentStore, now, 0, FALSE).st)
    /\ UNCHANGED <<now, issued, revoked, inflight, execution>>

\* the lambda has returned the coroutine object; the job waits for its next hour
CleanupJobReturns ==
    /\ scheduler = "called"
    /\ scheduler' = "waiting"
    /\ UNCHANGED <<now, token_blacklist, refresh_tokens, user_devices, issued, revoked,
                   inflight, execution>>

\* Every call the manager offers, for `budget` jtis
Calls(budget) ==
    \/ \E u \in LifecycleUsers, r \in Requests, fail \in 0..1 :
          \E rj \in {NoJti} \cup JtisIssuedTo(u, "refresh") :
              CreateAccessToken(u, r, rj, fail, budget)
    \/ \E u \in LifecycleUsers, r \in Requests, fail \in 0..2 :
          CreateRefreshToken(u, r, fail, budget)
    \/ \E e \in issued, r \in Requests, ty \in TokenTypes, raising \in {{}, Reads} :
          VerifyToken(e.token, r, ty, raising)
    \/ \E e \in issued, r \in Requests, ty \in TokenTypes :
          \E defect \in Defects \ {"none"} : VerifyDefective(e.token, defect, r, ty)
    \/ \E e \in issued, ttl \in {access_token_ttl, refresh_token_ttl}, fail \in 0..1 :
          BlacklistToken(e.token.jti, e.user_data, ttl, fail)
    \/ \E u \in LifecycleUsers, fail \in 0..3 : RevokeUserTokens(u, fail)
    \/ \E u \in LifecycleUsers, fp \in Fingerprints, fail \in 0..3 :
          RevokeDevice(u, fp, fail)
    \/ \E fail \in 0..3 : CleanupExpired(fail)

\* ----------------------------------------------------------------------
\* The routes of auth_routes.py that drive the manager
\* ----------------------------------------------------------------------

\* POST /login: create_refresh_token, then create_access_token linked to it;
\* either raising ends the request with 500 and nothing is set or returned
login(st, user, request, used, t, fail_store, fail_track) ==
    LET refresh_jti == generate_jti(used)
        refresh == create_refresh_token(st, user, request, refresh_jti, t, fail_store)
        access == create_access_token(refresh.st, user, request, refresh_jti,
                                      generate_jti(used \cup {refresh_jti}), t, fail_track)
    IN IF refresh.res = <<>> THEN [st |-> refresh.st, res |-> <<>>]
       ELSE IF access.res = <<>> THEN [st |-> access.st, res |-> <<>>]
       ELSE [st |-> access.st, res |-> refresh.res \o access.res]

\* POST /refresh with single-use rotation: the presented refresh token is
\* blacklisted once the new pair is issued
refresh_token_single_use(st, cookie, request, used, t, raising, fail_track, fail_store) ==
    LET payload == cookie
        jti == generate_jti(used)
        access == create_access_token(st, payload.user_id, request, payload.jti, jti,
                                      t, fail_track)
        refresh == create_refresh_token(access.st, payload.user_id, request,
                                        generate_jti(used \cup {jti}), t, fail_store)
    IN IF verify_token(st, cookie, request, "refresh", t, raising) # OK
       THEN [st |-> st, res |-> <<>>]
       ELSE IF access.res = <<>> THEN [st |-> access.st, res |-> <<>>]
       ELSE IF refresh.res = <<>> THEN [st |-> refresh.st, res |-> <<>>]
       ELSE [st |-> blacklist_token(refresh.st, payload.jti, payload.user_id,
                                    refresh_token_ttl, t, 0).st,
             res |-> access.res \o refresh.res]

\* POST /refresh: verify the cookie's refresh token, then create_access_token
\* linked to the presented token's jti, then create_refresh_token
refresh_token(st, cookie, request, used, t, raising, fail_track, fail_store) ==
    LET payload == cookie
        jti == generate_jti(used)
        access == create_access_token(st, payload.user_id, request, payload.jti, jti,
                                      t, fail_track)
        refresh == create_refresh_token(access.st, payload.user_id, request,
                                        generate_jti(used \cup {jti}), t, fail_store)
    IN IF verify_token(st, cookie, request, "refresh", t, raising) # OK
       THEN [st |-> st, res |-> <<>>]
       ELSE IF access.res = <<>> THEN [st |-> access.st, res |-> <<>>]
       ELSE IF refresh.res = <<>> THEN [st |-> refresh.st, res |-> <<>>]
       ELSE [st |-> refresh.st, res |-> access.res \o refresh.res]

\* POST /logout: blacklist the access token's jti for access_token_ttl and its
\* refresh_jti for refresh_token_ttl; res: the blacklist_token calls that returned True
logout(st, token, request, current_user, t, raising, fail_access, fail_refresh) ==
    LET payload == token
        access == blacklist_token(st, payload.jti, current_user, access_token_ttl,
                                  t, fail_access)
        refresh == IF payload.refresh_jti # NoJti
                   THEN blacklist_token(access.st, payload.refresh_jti, current_user,
                                        refresh_token_ttl, t, fail_refresh)
                   ELSE [st |-> access.st, res |-> FALSE]
    IN IF \/ verify_token(st, token, request, "access", t, raising) # OK
          \/ payload.user_id # current_user
       THEN [st |-> st, res |-> {}]
       ELSE [st |-> refresh.st,
             res |-> {j \in {payload.jti} : access.res}
                     \cup {j \in {payload.refresh_jti} : refresh.res}]

Login(user, request, fail_store, fail_track, budget) ==
    /\ Cardinality(UsedJtis) + 2 <= budget
    /\ LET r == login(CurrentStore, user, request, UsedJtis, now, fail_store, fail_track)
       IN /\ Commit(r.st)
          /\ HandBack(r.res, user, request)
    /\ UNCHANGED <<now, revoked, inflight, execution, scheduler>>

RefreshToken(cookie, request, raising, fail_track, fail_store, budget) ==
    /\ Cardinality(UsedJtis) + 2 <= budget
    /\ LET r == refresh_token(CurrentStore, cookie, request, UsedJtis, now, raising,
                              fail_track, fail_store)
       IN /\ Commit(r.st)
          /\ HandBack(r.res, cookie.user_id, request)
    /\ UNCHANGED <<now, revoked, inflight, execution, scheduler>>

Logout(token, request, current_user, raising, fail_access, fail_refresh) ==
    /\ LET r == logout(CurrentStore, token, request, current_user, now, raising,
                       fail_access, fail_refresh)
       IN /\ Commit(r.st)
          /\ Revoke(TRUE, {e \in issued : e.token.jti \in r.res}, "blacklist_token")
    /\ UNCHANGED <<now, issued, inflight, execution, scheduler>>

\* Every request the routes serve, for `budget` jtis
Routes(budget) ==
    \/ \E u \in LifecycleUsers, r \in Requests, fail_store \in 0..2, fail_track \in 0..1 :
          Login(u, r, fail_store, fail_track, budget)
    \/ \E e \in issued, r \in Requests, raising \in {{}, Reads} :
          \E fail_track \in 0..1, fail_store \in 0..2 :
              RefreshToken(e.token, r, raising, fail_track, fail_store, budget)
    \/ \E e \in issued, r \in Requests, raising \in {{}, Reads} :
          \E fail_access \in 0..1, fail_refresh \in 0..1 :
              Logout(e.token, r, e.user_data, raising, fail_access, fail_refresh)
    \/ \E e \in issued, r \in Requests, ty \in TokenTypes, raising \in {{}, Reads} :
          VerifyToken(e.token, r, ty, raising)
    \/ \E fail \in 0..3 : CleanupExpired(fail)

\* ----------------------------------------------------------------------
\* create_refresh_token statement by statement, in processes that share the
\* storage: every await of store_refresh_token is a step of its own
\* ----------------------------------------------------------------------

\* create_refresh_token up to the first await: the jti, then token_query
TokenQuery(p, user_data, request, raises, budget) ==
    /\ \A c \in inflight : c.proc # p
    /\ Cardinality(UsedJtis) < budget
    /\ LET jti == generate_jti(UsedJtis)
           stored == store_refresh_token(CurrentStore, jti, user_data,
                                         create_device_fingerprint(request),
                                         refresh_token_ttl, now, IF raises THEN 1 ELSE 2)
       IN /\ Commit(stored.st)
          /\ inflight' = IF raises THEN inflight
                         ELSE inflight \cup {[proc |-> p, pc |-> "user_tokens_query",
                                              jti |-> jti, user_data |-> user_data,
                                              request |-> request]}
    /\ UNCHANGED <<now, issued, revoked, execution, scheduler>>

\* the second await: user_tokens_query; a raise ends the call with HTTPException(500)
UserTokensQuery(p, raises) ==
    \E c \in inflight :
        /\ c.proc = p /\ c.pc = "user_tokens_query"
        /\ refresh_tokens' = IF raises THEN refresh_tokens
                             ELSE user_tokens_query(refresh_tokens, c.user_data,
                                                    MAX_REFRESH_TOKENS)
        /\ inflight' = IF raises THEN inflight \ {c}
                       ELSE (inflight \ {c}) \cup {[c EXCEPT !.pc = "return"]}
        /\ UNCHANGED <<now, token_blacklist, user_devices, issued, revoked, execution, scheduler>>

\* store_refresh_token returned True: the token is signed and handed back
Return(p) ==
    \E c \in inflight :
        /\ c.proc = p /\ c.pc = "return"
        /\ HandBack(<<refresh_claims(c.user_data, c.request, c.jti, now)>>,
                    c.user_data, c.request)
        /\ inflight' = inflight \ {c}
        /\ UNCHANGED <<now, token_blacklist, refresh_tokens, user_devices, revoked, execution, scheduler>>

\* Concurrent create_refresh_token calls, for `budget` jtis
Statements(budget) ==
    \E p \in Procs :
        \/ \E u \in Users, r \in StoreRequests, raises \in BOOLEAN :
              TokenQuery(p, u, r, raises, budget)
        \/ \E raises \in BOOLEAN : UserTokensQuery(p, raises)
        \/ Return(p)

\* Concurrent create_refresh_token calls in which no statement raises
StatementsSucceeding(budget) ==
    \E p \in Procs :
        \/ \E u \in Users, r \in StoreRequests : TokenQuery(p, u, r, FALSE, budget)
        \/ UserTokensQuery(p, FALSE)
        \/ Return(p)

\* ----------------------------------------------------------------------
\* revoke_user_tokens statement by statement, while create_refresh_token
\* calls of other requests run between its awaits
\* ----------------------------------------------------------------------

\* revoke_user_tokens up to its first await: blacklist_query
RevokeBlacklistQuery(user_id, request, raises) ==
    /\ \A c \in inflight : c.proc # "revoke_user_tokens"
    /\ Commit(revoke_user_tokens(CurrentStore, user_id, now, IF raises THEN 1 ELSE 2).st)
    /\ inflight' = IF raises THEN inflight
                   ELSE inflight \cup {[proc |-> "revoke_user_tokens",
                                        pc |-> "delete_tokens_query", jti |-> NoJti,
                                        user_data |-> user_id, request |-> request]}
    /\ UNCHANGED <<now, issued, revoked, execution, scheduler>>

\* the second await: delete_tokens_query
RevokeDeleteTokensQuery(raises) ==
    \E c \in inflight :
        /\ c.proc = "revoke_user_tokens" /\ c.pc = "delete_tokens_query"
        /\ refresh_tokens' = IF raises THEN refresh_tokens
                             ELSE SelectSeq(refresh_tokens,
                                            LAMBDA r : r.user_id # c.user_data)
        /\ inflight' = IF raises THEN inflight \ {c}
                       ELSE (inflight \ {c}) \cup {[c EXCEPT !.pc = "delete_devices_query"]}
        /\ UNCHANGED <<now, token_blacklist, user_devices, issued, revoked, execution,
                       scheduler>>

\* the third await: delete_devices_query, then `return True`
RevokeDeleteDevicesQuery(raises) ==
    \E c \in inflight :
        /\ c.proc = "revoke_user_tokens" /\ c.pc = "delete_devices_query"
        /\ user_devices' = IF raises THEN user_devices
                           ELSE {d \in user_devices : d.user_id # c.user_data}
        /\ inflight' = inflight \ {c}
        /\ Revoke(~raises, {e \in issued : e.user_data = c.user_data},
                  "revoke_user_tokens")
        /\ UNCHANGED <<now, token_blacklist, refresh_tokens, issued, execution, scheduler>>

\* One revocation at a time and the issuances around its steps, for `budget` jtis
Revocations(budget) ==
    \/ \E u \in LifecycleUsers, r \in StoreRequests, fail \in 0..2 :
          CreateRefreshToken(u, r, fail, budget)
    \/ \E u \in LifecycleUsers, r \in StoreRequests, fail \in 0..1 :
          CreateAccessToken(u, r, NoJti, fail, budget)
    \/ \E u \in LifecycleUsers, r \in StoreRequests, raises \in BOOLEAN :
          RevokeBlacklistQuery(u, r, raises)
    \/ \E raises \in BOOLEAN : RevokeDeleteTokensQuery(raises)
    \/ \E raises \in BOOLEAN : RevokeDeleteDevicesQuery(raises)
    \/ \E e \in issued, r \in StoreRequests : VerifyToken(e.token, r, "refresh", {})

\* ----------------------------------------------------------------------
\* The methods of PostgreSQLStorage called directly, each one atomic
\* ----------------------------------------------------------------------
StoredJtis == {r.jti : r \in Range(refresh_tokens)} \cup {b.jti : b \in token_blacklist}

StoreRefreshToken(jti, user_id, device_fp, expires_in, fail, budget) ==
    /\ jti \notin StoredJtis => Cardinality(StoredJtis) < budget
    /\ Commit(store_refresh_token(CurrentStore, jti, user_id, device_fp, expires_in,
                                  now, fail).st)
    /\ UNCHANGED <<now, issued, revoked, inflight, execution, scheduler>>

TrackDevice(user_id, device_fp, expires_in, fail) ==
    /\ Commit(track_device(CurrentStore, user_id, device_fp, expires_in, now, fail).st)
    /\ UNCHANGED <<now, issued, revoked, inflight, execution, scheduler>>

\* the devices of the users: the first user has two, every other user one
Devices ==
    {[user_id |-> u, device_fp |-> create_device_fingerprint(r)] :
         u \in LifecycleUsers, r \in Requests}
    \cup {[user_id |-> u, device_fp |-> create_device_fingerprint(r)] :
              u \in Users, r \in StoreRequests}

\* Every write of the storage, for `budget` jtis
Writes(budget) ==
    \/ \E jti \in {generate_jti(StoredJtis)} \cup {r.jti : r \in Range(refresh_tokens)} :
          \E d \in Devices, fail \in 0..2 :
              StoreRefreshToken(jti, d.user_id, d.device_fp, refresh_token_ttl, fail, budget)
    \/ \E d \in Devices, fail \in 0..1 :
          TrackDevice(d.user_id, d.device_fp, refresh_token_ttl, fail)
    \/ \E r \in Range(refresh_tokens), fail \in 0..1 :
          BlacklistToken(r.jti, r.user_id, refresh_token_ttl, fail)
    \/ \E u \in Users, fail \in 0..3 : RevokeUserTokens(u, fail)
    \/ \E d \in Devices, fail \in 0..3 : RevokeDevice(d.user_id, d.device_fp, fail)
    \/ \E fail \in 0..3 : CleanupExpired(fail)

\* ----------------------------------------------------------------------
\* Specifications
\* ----------------------------------------------------------------------
\* the calls of the manager, the clock read at whole seconds
Spec == Init /\ [][Tick(TicksPerSecond, Horizon) \/ Calls(MaxTokens)]_vars

\* the calls of the manager on one token, the clock read at every tick
SpecClock == Init /\ [][Tick(1, ClockMaxTime) \/ Calls(ClockMaxTokens)]_vars

\* the requests of the routes, the clock read at whole seconds
SpecRoutes == Init /\ [][Tick(TicksPerSecond, Horizon) \/ Routes(RouteMaxTokens)]_vars

\* concurrent create_refresh_token calls of two users, statement by statement
SpecStore == Init /\ [][Statements(StoreMaxTokens)]_vars

\* the calls of the manager on one token while the scheduler fires its job
\* again and again
SpecScheduler ==
    /\ Init
    /\ [][Tick(TicksPerSecond, Horizon) \/ Calls(ClockMaxTokens)
           \/ CleanupJob \/ CleanupJobReturns]_vars
    /\ WF_vars(CleanupJob) /\ WF_vars(CleanupJobReturns)

\* concurrent create_refresh_token calls of two users in which every statement
\* succeeds
SpecQuiescence == Init /\ [][StatementsSucceeding(StoreMaxTokens)]_vars

\* revoke_user_tokens statement by statement among issuances
SpecRevoke == Init /\ [][Revocations(RevokeMaxTokens)]_vars

\* the calls of _execute; a pass of the loop ends: every statement runs under
\* command_timeout
SpecExecute ==
    Init /\ [][Executions]_vars /\ WF_vars(\E outcome \in Outcomes : Attempt(outcome))

\* the storage methods on the tables of two users, before any row expires
SpecTables == Init /\ [][Writes(TablesMaxTokens)]_vars

\* ----------------------------------------------------------------------
\* Properties
\* ----------------------------------------------------------------------
Verify(e, request, token_type) ==
    verify_token(CurrentStore, e.token, request, token_type, now, {})

RevokedBy(jti, by) == [jti |-> jti, by |-> by] \in revoked

\* C1 (as claimed): once blacklist_token(jti, user_id, ttl) has returned True,
\* verify_token of a token carrying that jti, while the token is unexpired,
\* fails with Revoked from every request and whatever reads fail.
C1_RevokedOnceBlacklisted ==
    \A e \in issued :
        (RevokedBy(e.token.jti, "blacklist_token") /\ decode(e.token, now) = OK)
        => \A r \in Requests, raising \in SUBSET Reads :
               verify_token(CurrentStore, e.token, r, e.token.type, now, raising) = Revoked

\* C2: when the blacklist lookup raises, is_token_blacklisted is True in both
\* backends, and verify_token of any token returns neither success nor a
\* storage error: it fails, and with Revoked once the token decodes and has
\* the expected type.
C2_FailClosed ==
    /\ \A j \in Jtis : is_token_blacklisted(CurrentStore, j, now, TRUE)
    /\ \A keys \in SUBSET UsedJtis, j \in Jtis : redis_is_token_blacklisted(keys, j, TRUE)
    /\ \A e \in issued, r \in Requests, ty \in TokenTypes, raising \in SUBSET Reads :
           "is_token_blacklisted" \in raising
           => LET res == verify_token(CurrentStore, e.token, r, ty, now, raising)
              IN /\ res \notin {OK, VerificationFailed}
                 /\ (decode(e.token, now) = OK /\ e.token.type = ty) => res = Revoked

\* a token that verifies while the lookup works and is Revoked when it raises
C2_Witness ==
    \E e \in issued :
        /\ Verify(e, e.request, e.token.type) = OK
        /\ verify_token(CurrentStore, e.token, e.request, e.token.type, now,
                        {"is_token_blacklisted"}) = Revoked

\* C3 (as claimed): a token with embedded fingerprint A presented from a request
\* with fingerprint B # A, B not among the user's unexpired DeviceRecords,
\* does not verify (it fails with DeviceAuthorizationChanged unless an earlier
\* check already failed).
C3_DeviceMismatchRejected ==
    \A e \in issued, r \in Requests :
        LET B == create_device_fingerprint(r)
            registry == get_user_devices(CurrentStore, e.token.user_id, now, FALSE)
        IN (B # e.token.device_fp /\ B \notin {d.device_fp : d \in registry})
           => Verify(e, r, e.token.type) \in
                  {ExpiredToken, Revoked, RefreshNoLongerValid, DeviceAuthorizationChanged}

\* C4: after revoke_user_tokens(user_id) returned True, an access token issued
\* before it whose refresh_jti names one of that user's refresh tokens never
\* verifies; while unexpired it fails with RefreshNoLongerValid or Revoked.
C4_RevokeAll ==
    \A e \in issued :
        (/\ e.token.type = "access"
         /\ e.token.refresh_jti \in JtisIssuedTo(e.user_data, "refresh")
         /\ RevokedBy(e.token.refresh_jti, "revoke_user_tokens"))
        => \A r \in Requests, raising \in SUBSET Reads :
               LET res == verify_token(CurrentStore, e.token, r, "access", now, raising)
               IN /\ res # OK
                  /\ decode(e.token, now) = OK => res \in {RefreshNoLongerValid, Revoked}

\* an unexpired linked access token, revoked through its user, fails from its own request
C4_Witness ==
    \E e \in issued :
        /\ e.token.type = "access"
        /\ RevokedBy(e.token.jti, "revoke_user_tokens")
        /\ RevokedBy(e.token.refresh_jti, "revoke_user_tokens")
        /\ decode(e.token, now) = OK
        /\ Verify(e, e.request, "access") = RefreshNoLongerValid

Count(rt, user_id) == Cardinality({i \in 1..Len(rt) : rt[i].user_id = user_id})

\* C5 (as claimed): in every state, the states between the insert and the
\* prune of concurrent store_refresh_token calls included, each user has at
\* most MAX_REFRESH_TOKENS RefreshTokenRecords.
C5_CapAlways ==
    \A u \in Users : Count(refresh_tokens, u) <= MAX_REFRESH_TOKENS

\* C5 (amended): each user has at most MAX_REFRESH_TOKENS records right after
\* every prune statement of a store_refresh_token call for that user that did
\* not raise; no step adds more than one record to a user; and a user's count
\* grows only by the insert of a call for that user.
C5_CapAfterPrune ==
    [][\A p \in Procs :
          /\ \A c \in inflight :
                 (c.proc = p /\ UserTokensQuery(p, FALSE))
                 => Count(refresh_tokens', c.user_data) <= MAX_REFRESH_TOKENS
          /\ \A u \in Users :
                 /\ Count(refresh_tokens', u) <= Count(refresh_tokens, u) + 1
                 /\ Count(refresh_tokens', u) > Count(refresh_tokens, u)
                    => \E c \in inflight' \ inflight :
                           c.user_data = u /\ c.pc = "user_tokens_query"]_vars

\* a user holds MAX_REFRESH_TOKENS + 1 records while no call is in flight:
\* a prune raised after its insert
C5_Witness ==
    /\ inflight = {}
    /\ \E u \in Users : Count(refresh_tokens, u) = MAX_REFRESH_TOKENS + 1

\* the records of a user, oldest first
RecordsOf(rt, user_id) == SelectSeq(rt, LAMBDA r : r.user_id = user_id)

\* the records of everybody else
RecordsOfOthers(rt, user_id) == SelectSeq(rt, LAMBDA r : r.user_id # user_id)

C7_RoundTripUntilTtl ==
    \A e \in issued :
        (/\ e.token.type = "access" /\ e.token.refresh_jti = NoJti
         /\ \A x \in revoked : x.jti # e.token.jti
         /\ now < e.at + seconds(access_token_ttl))
        => Verify(e, e.request, "access") = OK /\ e.token.user_id = e.user_data

\* C7 (amended): an access token created without refresh_jti and not named
\* by any revocation verifies from the request that created it at every time
\* before its exp, which is the creation time plus access_token_ttl cut down
\* to a whole second, and carries the input user's id.
C7_RoundTripUntilExp ==
    \A e \in issued :
        (/\ e.token.type = "access" /\ e.token.refresh_jti = NoJti
         /\ \A x \in revoked : x.jti # e.token.jti
         /\ now < timegm(e.at + seconds(access_token_ttl)))
        => Verify(e, e.request, "access") = OK /\ e.token.user_id = e.user_data

\* an unrevoked token verified after its creation, the clock having moved
C7_Witness ==
    \E e \in issued :
        /\ e.token.type = "access" /\ e.token.refresh_jti = NoJti
        /\ \A x \in revoked : x.jti # e.token.jti
        /\ e.at < now
        /\ Verify(e, e.request, "access") = OK

\* C8 (as claimed): an access token with refresh_jti set verifies only if the
\* referenced RefreshTokenRecord exists and is unexpired and the referenced
\* jti is not blacklisted.
C8_LinkedRefreshValid ==
    \A e \in issued, r \in Requests :
        (/\ e.token.type = "access" /\ e.token.refresh_jti # NoJti
         /\ Verify(e, r, "access") = OK)
        => /\ \E row \in Range(refresh_tokens) :
                  row.jti = e.token.refresh_jti /\ row.expires_at > now
           /\ ~is_token_blacklisted(CurrentStore, e.token.refresh_jti, now, FALSE)

\* C9: create_access_token hands back a token only if track_device returned
\* True and create_refresh_token only if store_refresh_token returned True; a
\* login or refresh request hands back both tokens or none, and both only if
\* both storage steps returned True.
C9_IssuanceAllOrNothing ==
    /\ [](\A u \in Users, r \in Requests, j \in {generate_jti(UsedJtis)} :
            /\ \A rj \in {NoJti} \cup JtisIssuedTo(u, "refresh"), fail \in 0..1 :
                   create_access_token(CurrentStore, u, r, rj, j, now, fail).res # <<>>
                   => track_device(CurrentStore, u, create_device_fingerprint(r),
                                   refresh_token_ttl, now, fail).res
            /\ \A fail \in 0..2 :
                   create_refresh_token(CurrentStore, u, r, j, now, fail).res # <<>>
                   => store_refresh_token(CurrentStore, j, u, create_device_fingerprint(r),
                                          refresh_token_ttl, now, fail).res)
    /\ [][issued' # issued
          => \A r \in Requests, fail_store \in 0..2, fail_track \in 0..1 :
                 /\ \A u \in LifecycleUsers :
                        Login(u, r, fail_store, fail_track, RouteMaxTokens)
                        => /\ Cardinality(issued' \ issued) = 2
                           /\ fail_store = 0 /\ fail_track = 0
                 /\ \A e \in issued, raising \in {{}, Reads} :
                        RefreshToken(e.token, r, raising, fail_track, fail_store,
                                     RouteMaxTokens)
                        => /\ Cardinality(issued' \ issued) = 2
                           /\ fail_store = 0 /\ fail_track = 0]_vars

\* a request failed after its first storage step: a refresh token is stored
\* that no caller holds, next to tokens that were handed back
C9_Witness ==
    /\ \E row \in Range(refresh_tokens) : row.jti \notin {e.token.jti : e \in issued}
    /\ \E e \in issued : e.token.type = "access" /\ e.token.refresh_jti # NoJti

\* C10 (as claimed): an access token verifies only if an unexpired DeviceRecord
\* of the token's user exists for the embedded or the computed fingerprint.
C10_DeviceRecordNecessary ==
    \A e \in issued, r \in Requests :
        (e.token.type = "access" /\ Verify(e, r, "access") = OK)
        => \E d \in get_user_devices(CurrentStore, e.token.user_id, now, FALSE) :
               d.device_fp \in {e.token.device_fp, create_device_fingerprint(r)}

\* C11 (as claimed): when the embedded fingerprint differs from the computed
\* one and verification gets as far as the device check, it passes if and
\* only if the computed fingerprint is among the devices get_user_devices
\* returns for the token's user.
C11_SoftMigration ==
    \A e \in issued, r \in Requests :
        LET computed == create_device_fingerprint(r)
            devices == get_user_devices(CurrentStore, e.token.user_id, now, FALSE)
            res == Verify(e, r, e.token.type)
        IN (computed # e.token.device_fp /\ res \in {OK, DeviceAuthorizationChanged})
           => (res = OK <=> computed \in {d.device_fp : d \in devices})

\* C12 (as claimed): in every state of the blacklist table, a blacklist_token
\* call for a jti that returns True leaves is_token_blacklisted True for it.
C12_ReadAfterWrite ==
    \A jti \in UsedJtis, u \in Users, ttl \in {access_token_ttl, refresh_token_ttl} :
        LET written == blacklist_token(CurrentStore, jti, u, ttl, now, 0)
        IN written.res => is_token_blacklisted(written.st, jti, now, FALSE)

\* the ttl a token of a type is created with
TtlOf(type) == IF type = "access" THEN access_token_ttl ELSE refresh_token_ttl

\* C13: once the ttl a token was created with has elapsed, verify_token fails
\* with ExpiredToken, whatever the request, the expected type, the tables and
\* the reads that fail: never success, never an internal error.
C13_Expiry ==
    \A e \in issued :
        now >= e.at + seconds(TtlOf(e.token.type))
        => \A r \in Requests, ty \in TokenTypes, raising \in SUBSET Reads :
               verify_token(CurrentStore, e.token, r, ty, now, raising) = ExpiredToken

\* an expired refresh token whose record is still stored and not blacklisted
C13_Witness ==
    \E e \in issued :
        /\ e.token.type = "refresh"
        /\ now >= e.at + seconds(refresh_token_ttl)
        /\ \E row \in Range(refresh_tokens) : row.jti = e.token.jti
        /\ \A b \in token_blacklist : b.jti # e.token.jti
        /\ Verify(e, e.request, "refresh") = ExpiredToken

\* C14 (as claimed): verify_token reports an expired token, a token with an
\* invalid signature and a token missing a required claim as three different
\* error kinds.
C14_DistinctErrorKinds ==
    \A e \in issued, r \in Requests :
        LET invalid_signature == verify_presented(CurrentStore, e.token, "signature", r,
                                                  e.token.type, now, {})
            malformed == verify_presented(CurrentStore, e.token, "missing_claim", r,
                                          e.token.type, now, {})
        IN /\ invalid_signature # malformed
           /\ decode(e.token, now) # OK
              => Verify(e, r, e.token.type) \notin {invalid_signature, malformed}

\* the access tokens issued with a link to refresh token e
LinkedTo(e) == {a \in issued : a.token.type = "access" /\ a.token.refresh_jti = e.token.jti}

\* C15: a refresh flow that issues a new pair leaves the blacklist as it was,
\* and every issued refresh token that is unexpired and was not named by a
\* revocation verifies as "refresh" from every request and can start a
\* refresh flow that issues a new pair.
C15_RotationDoesNotRevoke ==
    /\ [](\A e \in issued :
            (/\ e.token.type = "refresh"
             /\ now < e.at + seconds(refresh_token_ttl)
             /\ \A x \in revoked : x.jti # e.token.jti)
            => \A r \in Requests :
                   /\ Verify(e, r, "refresh") = OK
                   /\ refresh_token(CurrentStore, e.token, r, UsedJtis, now, {}, 0, 0).res
                          # <<>>)
    /\ [][\A e \in issued, r \in Requests :
            (/\ issued' # issued
             /\ \E raising \in {{}, Reads}, fail_track \in 0..1, fail_store \in 0..2 :
                    RefreshToken(e.token, r, raising, fail_track, fail_store, RouteMaxTokens))
            => token_blacklist' = token_blacklist]_vars

\* a refresh token that login issued and a refresh flow has used, still valid
C15_Witness ==
    \E e \in issued :
        /\ e.token.type = "refresh"
        /\ Cardinality(LinkedTo(e)) >= 2
        /\ \E x \in issued : x.token.type = "refresh" /\ x.token.jti # e.token.jti
        /\ Verify(e, e.request, "refresh") = OK

\* C16 (as claimed): a refresh token whose RefreshTokenRecord the cap
\* eviction of store_refresh_token has deleted no longer verifies as "refresh".
C16_EvictedNoLongerVerifies ==
    \A e \in issued :
        (/\ e.token.type = "refresh"
         /\ \A row \in Range(refresh_tokens) : row.jti # e.token.jti
         /\ \A x \in revoked : x.jti # e.token.jti)
        => Verify(e, e.request, "refresh") # OK

\* the rows of a store that belong to other users than user_id
OthersRows(st, user_id) ==
    [token_blacklist |-> {b \in st.token_blacklist : b.user_id # user_id},
     refresh_tokens |-> SelectSeq(st.refresh_tokens, LAMBDA r : r.user_id # user_id),
     user_devices |-> {d \in st.user_devices : d.user_id # user_id}]

\* C17 (as claimed): in every state of the tables, revoke_user_tokens(user_id)
\* returning True leaves every refresh token of the user whose record was
\* unexpired blacklisted (is_token_blacklisted), leaves the user without
\* RefreshTokenRecords and DeviceRecords, and leaves the rows of other users
\* as they were.
C17_RevokeUserTokensPost ==
    \A u \in Users :
        LET done == revoke_user_tokens(CurrentStore, u, now, 0)
        IN done.res =>
           /\ \A i \in 1..Len(refresh_tokens) :
                  (refresh_tokens[i].user_id = u /\ refresh_tokens[i].expires_at > now)
                  => is_token_blacklisted(done.st, refresh_tokens[i].jti, now, FALSE)
           /\ \A r \in Range(done.st.refresh_tokens) : r.user_id # u
           /\ \A d \in done.st.user_devices : d.user_id # u
           /\ OthersRows(done.st, u) = OthersRows(CurrentStore, u)

\* the rows of a store that do not belong to device_fp of user_id
OtherDevicesRows(st, user_id, device_fp) ==
    [refresh_tokens |-> SelectSeq(st.refresh_tokens,
                           LAMBDA r : ~(r.user_id = user_id /\ r.device_fp = device_fp)),
     user_devices |-> {d \in st.user_devices :
                           ~(d.user_id = user_id /\ d.device_fp = device_fp)}]

\* the jtis of the RefreshTokenRecords of device_fp of user_id
DeviceJtis(st, user_id, device_fp) ==
    {r.jti : r \in {x \in Range(st.refresh_tokens) :
                        x.user_id = user_id /\ x.device_fp = device_fp}}

\* C18: in every state of the tables, revoke_device(user_id, device_fp),
\* whichever statement it stops at, leaves the RefreshTokenRecords and
\* DeviceRecords of every other fingerprint and of every other user as they
\* were, keeps every blacklist entry and adds entries only for the jtis of the
\* records of (user_id, device_fp); when it returns True those records and that
\* DeviceRecord are deleted and each of the jtis has a blacklist entry.
C18_RevokeDeviceScope ==
    \A d \in Devices, fail \in 0..3 :
        LET done == revoke_device(CurrentStore, d.user_id, d.device_fp, fail)
            jtis == DeviceJtis(CurrentStore, d.user_id, d.device_fp)
        IN /\ OtherDevicesRows(done.st, d.user_id, d.device_fp)
                 = OtherDevicesRows(CurrentStore, d.user_id, d.device_fp)
           /\ token_blacklist \subseteq done.st.token_blacklist
           /\ \A b \in done.st.token_blacklist \ token_blacklist : b.jti \in jtis
           /\ done.res =>
                 /\ DeviceJtis(done.st, d.user_id, d.device_fp) = {}
                 /\ \A x \in done.st.user_devices :
                        ~(x.user_id = d.user_id /\ x.device_fp = d.device_fp)
                 /\ \A j \in jtis : \E b \in done.st.token_blacklist : b.jti = j

\* a user with records on two devices, another user with records too, and a
\* revoke_device of the first device that blacklists and deletes
C18_Witness ==
    \E d \in Devices, other \in Devices, stranger \in Devices :
        LET done == revoke_device(CurrentStore, d.user_id, d.device_fp, 0)
        IN /\ other.user_id = d.user_id /\ other.device_fp # d.device_fp
           /\ stranger.user_id # d.user_id
           /\ \A x \in {d, other, stranger} :
                  /\ DeviceJtis(CurrentStore, x.user_id, x.device_fp) # {}
                  /\ \E y \in user_devices :
                         y.user_id = x.user_id /\ y.device_fp = x.device_fp
           /\ done.res
           /\ done.st.token_blacklist # token_blacklist
           /\ Len(done.st.refresh_tokens) = 2
           /\ Cardinality(done.st.user_devices) = 2

\* C19 (as claimed): in every state there is at most one DeviceRecord per
\* (user_id, device_fp), and every step that issues tokens, by
\* create_access_token or by create_refresh_token, leaves for each issued
\* token a DeviceRecord of (user, fingerprint of the request) with last_seen
\* at the time of issuance and expires_at refresh_token_ttl later.
C19_DeviceRegistryUpkeep ==
    /\ [](\A d1 \in user_devices, d2 \in user_devices :
            (d1.user_id = d2.user_id /\ d1.device_fp = d2.device_fp) => d1 = d2)
    /\ [][\A e \in issued' \ issued :
            \E d \in user_devices' :
                /\ d.user_id = e.user_data
                /\ d.device_fp = create_device_fingerprint(e.request)
                /\ d.last_seen = now
                /\ d.expires_at = now + seconds(refresh_token_ttl)]_vars

\* C20 (as claimed): in every state of the tables, each storage write called
\* twice in succession with the same arguments at the same time leaves the
\* three tables as one call leaves them and returns what one call returns.
C20_WritesIdempotent ==
    /\ \A jti \in StoredJtis \cup {generate_jti(StoredJtis)}, u \in Users :
           \A ttl \in {access_token_ttl, refresh_token_ttl} :
               LET once == blacklist_token(CurrentStore, jti, u, ttl, now, 0)
               IN blacklist_token(once.st, jti, u, ttl, now, 0) = once
    /\ \A jti \in StoredJtis \cup {generate_jti(StoredJtis)}, d \in Devices :
           LET once == store_refresh_token(CurrentStore, jti, d.user_id, d.device_fp,
                                           refresh_token_ttl, now, 0)
           IN store_refresh_token(once.st, jti, d.user_id, d.device_fp,
                                  refresh_token_ttl, now, 0) = once
    /\ \A d \in Devices :
           LET once == track_device(CurrentStore, d.user_id, d.device_fp,
                                    refresh_token_ttl, now, 0)
           IN track_device(once.st, d.user_id, d.device_fp, refresh_token_ttl, now, 0)
                 = once
    /\ \A u \in Users :
           LET once == revoke_user_tokens(CurrentStore, u, now, 0)
           IN revoke_user_tokens(once.st, u, now, 0) = once
    /\ \A d \in Devices :
           LET once == revoke_device(CurrentStore, d.user_id, d.device_fp, 0)
           IN revoke_device(once.st, d.user_id, d.device_fp, 0) = once
    /\ LET once == cleanup_expired(CurrentStore, now, 0)
       IN cleanup_expired(once.st, now, 0) = once

\* C21: verify_token reports the first failing check in the order decode,
\* type, blacklist, linked refresh record, device fingerprint, whatever reads
\* fail, and awaits no storage method for a token that fails decode or the
\* type check; a token with a defect fails decode whatever the tables hold.
C21_CheckOrder ==
    \A e \in issued, r \in Requests, ty \in TokenTypes, raising \in SUBSET Reads :
        LET res == verify_token(CurrentStore, e.token, r, ty, now, raising)
            reads == verify_token_reads(CurrentStore, e.token, r, ty, now, raising)
            expired == e.token.exp <= now
            wrong_type == e.token.type # ty
            blacklisted == is_token_blacklisted(CurrentStore, e.token.jti, now,
                                                "is_token_blacklisted" \in raising)
            no_refresh == /\ ty = "access" /\ e.token.refresh_jti # NoJti
                          /\ get_refresh_token(CurrentStore, e.token.refresh_jti, now,
                                               "get_refresh_token" \in raising) = {}
        IN /\ expired => (res = ExpiredToken /\ reads = <<>>)
           /\ (~expired /\ wrong_type) => (res = TypeMismatch /\ reads = <<>>)
           /\ (~expired /\ ~wrong_type /\ blacklisted)
                 => (res = Revoked /\ reads = <<"is_token_blacklisted">>)
           /\ (~expired /\ ~wrong_type /\ ~blacklisted /\ no_refresh)
                 => (res = RefreshNoLongerValid
                     /\ reads = <<"is_token_blacklisted", "get_refresh_token">>)
           /\ (~expired /\ ~wrong_type /\ ~blacklisted /\ ~no_refresh)
                 => /\ res \in {OK, DeviceAuthorizationChanged}
                    /\ res = DeviceAuthorizationChanged
                          => e.token.device_fp # create_device_fingerprint(r)
           /\ \A defect \in Defects \ {"none"} :
                  verify_presented(CurrentStore, e.token, defect, r, ty, now, raising)
                      = InvalidToken

\* an unexpired blacklisted token presented as the other type: TypeMismatch
C21_Witness ==
    \E e \in issued, ty \in TokenTypes :
        /\ decode(e.token, now) = OK
        /\ is_token_blacklisted(CurrentStore, e.token.jti, now, FALSE)
        /\ e.token.type # ty
        /\ Verify(e, e.request, ty) = TypeMismatch
        /\ verify_token_reads(CurrentStore, e.token, e.request, ty, now, {}) = <<>>

C23_CleanupLiveness ==
    /\ \A jti \in 1..ClockMaxTokens :
           /\ (\E b \in token_blacklist : b.jti = jti /\ b.expires_at <= now)
                 ~> (\A b \in token_blacklist : b.jti # jti)
           /\ (\E r \in Range(refresh_tokens) : r.jti = jti /\ r.expires_at <= now)
                 ~> (\A r \in Range(refresh_tokens) : r.jti # jti)
    /\ \A k \in Devices :
           (\E d \in user_devices : /\ d.user_id = k.user_id /\ d.device_fp = k.device_fp
                                     /\ d.expires_at <= now)
             ~> (\A d \in user_devices :
                    ~(d.user_id = k.user_id /\ d.device_fp = k.device_fp))
    /\ [](\A fail \in 0..3 :
            LET done == cleanup_expired(CurrentStore, now, fail).st
            IN /\ \A b \in token_blacklist :
                      b.expires_at > now => b \in done.token_blacklist
               /\ \A r \in Range(refresh_tokens) :
                      r.expires_at > now => r \in Range(done.refresh_tokens)
               /\ \A d \in user_devices :
                      d.expires_at > now => d \in done.user_devices)

\* C24 (as claimed): in every state of the tables, when the refresh flow
\* succeeds for an issued refresh token, the access token it returns verifies
\* from the same request right after the flow.
C24_RefreshedAccessUsable ==
    \A e \in issued, r \in Requests :
        LET flow == refresh_token(CurrentStore, e.token, r, UsedJtis, now, {}, 0, 0)
        IN (e.token.type = "refresh" /\ flow.res # <<>>)
           => verify_token(flow.st, flow.res[1], r, "access", now, {}) = OK

\* C25 (as claimed): once revoke_user_tokens(user_id) has returned True, no
\* refresh token issued to that user before it returned verifies as
\* "refresh", from any request.
C25_RevokedRefreshNeverVerifies ==
    \A e \in issued :
        (e.token.type = "refresh" /\ RevokedBy(e.token.jti, "revoke_user_tokens"))
        => \A r \in Requests : Verify(e, r, "refresh") # OK

\* C26 (as claimed): under concurrent create_refresh_token calls, whenever a
\* call hands back its token, a RefreshTokenRecord with the token's jti is in
\* the registry at that moment.
C26_RecordExistsAtReturn ==
    [][\A e \in issued' \ issued :
          \E row \in Range(refresh_tokens') : row.jti = e.token.jti]_vars

\* the calls of a user that have inserted their record and not yet pruned
Unpruned(user_id) ==
    {c \in inflight : c.user_data = user_id /\ c.pc = "user_tokens_query"}

\* C27: when every statement of the concurrent store_refresh_token calls
\* succeeds, a user never holds more than MAX_REFRESH_TOKENS records plus one
\* for each of the user's calls between its insert and its prune; so once all
\* the calls have completed each user holds at most MAX_REFRESH_TOKENS.
C27_CapAtQuiescence ==
    /\ \A u \in Users :
           Count(refresh_tokens, u) <= MAX_REFRESH_TOKENS + Cardinality(Unpruned(u))
    /\ inflight = {} => \A u \in Users : Count(refresh_tokens, u) <= MAX_REFRESH_TOKENS

\* all calls completed, a user at the cap after more issuances than the cap
C27_Witness ==
    /\ inflight = {}
    /\ \E u \in Users :
           /\ Count(refresh_tokens, u) = MAX_REFRESH_TOKENS
           /\ Cardinality(JtisIssuedTo(u, "refresh")) > MAX_REFRESH_TOKENS

\* C28 (as claimed): in every state of the tables, a store_refresh_token call
\* that returns False, at whichever statement it raised, leaves the refresh
\* registry as it was: no record for the jti of the call, and no user above
\* MAX_REFRESH_TOKENS that was not above it before.
C28_FailedIssuanceUnchanged ==
    \A u \in LifecycleUsers, r \in Requests, fail \in 1..2 :
        LET jti == generate_jti(UsedJtis)
            call == store_refresh_token(CurrentStore, jti, u, create_device_fingerprint(r),
                                        refresh_token_ttl, now, fail)
        IN ~call.res =>
             /\ call.st.refresh_tokens = refresh_tokens
             /\ \A row \in Range(call.st.refresh_tokens) : row.jti # jti
             /\ Count(refresh_tokens, u) <= MAX_REFRESH_TOKENS
                   => Count(call.st.refresh_tokens, u) <= MAX_REFRESH_TOKENS

\* C29: verify_token, for every issued token, request, expected type, failing
\* reads and outcome, leaves the blacklist, the refresh registry and the
\* device registry as they were.
C29_VerifyReadOnly ==
    \A e \in issued, r \in Requests, ty \in TokenTypes, raising \in SUBSET Reads :
        verify_token_effect(CurrentStore, e.token, r, ty, now, raising) = CurrentStore

\* a verification that tolerates a fingerprint mismatch after reading the devices
C29_Witness ==
    \E e \in issued, r \in Requests :
        /\ e.token.device_fp # create_device_fingerprint(r)
        /\ Verify(e, r, e.token.type) = OK
        /\ \A d \in user_devices : d.device_fp # create_device_fingerprint(r)
        /\ "get_user_devices" \in
               Range(verify_token_reads(CurrentStore, e.token, r, e.token.type, now, {}))

\* C30: in every state of the tables, for every issued token, request,
\* expected type and failing reads, verify_token has the same outcome on the
\* tables as they are and on the tables a cleanup_expired run at the same
\* time leaves, whichever statement the run stops at.
C30_CleanupInvisible ==
    \A fail \in 0..3 :
        LET cleaned == cleanup_expired(CurrentStore, now, fail).st
        IN \A e \in issued, r \in Requests, ty \in TokenTypes, raising \in SUBSET Reads :
               verify_token(cleaned, e.token, r, ty, now, raising)
                   = verify_token(CurrentStore, e.token, r, ty, now, raising)

\* an unexpired token that verifies while an expired blacklist entry for its
\* jti is still in the table, and a cleanup that deletes the entry
C30_Witness ==
    \E e \in issued :
        /\ decode(e.token, now) = OK
        /\ \E b \in token_blacklist : b.jti = e.token.jti /\ b.expires_at <= now
        /\ Verify(e, e.request, e.token.type) = OK
        /\ cleanup_expired(CurrentStore, now, 0).st.token_blacklist # token_blacklist

====
